---- MODULE Spec2Model ----
(***************************************************************************)
(* Model of packages/openapi-to-graphql/src/auth_builder.ts: the viewers   *)
(* that let a caller pass credentials to the resolve functions.            *)
(*                                                                         *)
(* Strings the code transforms or orders (protocol names, security types,  *)
(* viewer names) are sequences of one-character strings, so that sanitize, *)
(* the numeric suffix and the key sort are computed character by           *)
(* character.  Strings the code only copies (field names, parameter names, *)
(* argument payloads) are plain strings.  A JavaScript object is an        *)
(* ordered map: a sequence of <<key, value>> pairs with distinct keys, in  *)
(* insertion order.                                                        *)
(*                                                                         *)
(* createAndLoadViewer is run once with isMutation = FALSE and once with   *)
(* isMutation = TRUE on equal inputs; every variable that a run owns or    *)
(* may write is indexed by isMutation.                                     *)
(***************************************************************************)
EXTENDS Integers, Sequences, FiniteSets, TLC

VARIABLES
  queryFields,      \* parameter queryFields: protocolName -> (fieldName -> field)
  oass,             \* parameter oass: the titles of the OpenAPI documents
  data,             \* data[m]: parameter data (security, saneMap, defs) of run m
  pc,               \* pc[m]: "idle" before run m, "loop" inside it, "returned" after
  cursor,           \* cursor[m]: position of the for..in loop over queryFields
  results,          \* results[m]: local results, viewerName -> Viewer
  usedViewerNames,  \* usedViewerNames[m]: security type -> list of viewer names
  anyAuthFields,    \* anyAuthFields[m]: the accumulated fields of all protocols
  warnings,         \* warnings[m]: what run m handed to handleWarning
  lastCall          \* the latest invocation of a returned resolve function

vars == <<queryFields, oass, data, pc, cursor, results, usedViewerNames,
          anyAuthFields, warnings, lastCall>>

-----------------------------------------------------------------------------
(* Ordered maps (JavaScript objects with string keys).                     *)

Range(s) == {s[i] : i \in 1..Len(s)}

Keys(m) == [i \in 1..Len(m) |-> m[i][1]]

KeySet(m) == {m[i][1] : i \in 1..Len(m)}

Has(m, k) == k \in KeySet(m)

Get(m, k) == m[CHOOSE i \in 1..Len(m) : m[i][1] = k][2]

\* m[k] = v: an existing key keeps its position, a new key is appended.
Put(m, k, v) ==
  IF Has(m, k)
    THEN [i \in 1..Len(m) |-> IF m[i][1] = k THEN <<k, v>> ELSE m[i]]
    ELSE Append(m, <<k, v>>)

RECURSIVE ObjectAssign(_, _)
\* Object.assign(target, source): every own property of source, in order.
ObjectAssign(target, source) ==
  IF source = <<>>
    THEN target
    ELSE ObjectAssign(Put(target, source[1][1], source[1][2]), Tail(source))

\* Array.prototype.indexOf(x) !== -1
Includes(list, x) == \E i \in 1..Len(list) : list[i] = x

-----------------------------------------------------------------------------
(* Characters.                                                             *)

Digits == <<"0", "1", "2", "3", "4", "5", "6", "7", "8", "9">>

UpperCase == <<"A", "B", "C", "D", "E", "F", "G", "H", "I", "J", "K", "L", "M",
               "N", "O", "P", "Q", "R", "S", "T", "U", "V", "W", "X", "Y", "Z">>

LowerCase == <<"a", "b", "c", "d", "e", "f", "g", "h", "i", "j", "k", "l", "m",
               "n", "o", "p", "q", "r", "s", "t", "u", "v", "w", "x", "y", "z">>

\* The characters of the model in UTF-16 code unit order.
CodeUnits == <<" ", "-">> \o Digits \o UpperCase \o <<"_">> \o LowerCase

CodeUnit(c) == CHOOSE i \in 1..Len(CodeUnits) : CodeUnits[i] = c

\* [a-zA-Z0-9_]
IsLegalChar(c) == c \in Range(Digits) \cup Range(UpperCase) \cup Range(LowerCase) \cup {"_"}

ToUpperCase(c) ==
  IF c \in Range(LowerCase)
    THEN UpperCase[CHOOSE i \in 1..Len(LowerCase) : LowerCase[i] = c]
    ELSE c

\* The first character upper-cased, the rest untouched.
Capitalize(str) ==
  IF str = <<>> THEN str ELSE <<ToUpperCase(str[1])>> \o Tail(str)

RECURSIVE CamelCaseFrom(_, _, _)
CamelCaseFrom(str, i, afterIllegal) ==
  IF i > Len(str)
    THEN <<>>
    ELSE IF ~IsLegalChar(str[i])
      THEN CamelCaseFrom(str, i + 1, TRUE)
      ELSE <<IF afterIllegal THEN ToUpperCase(str[i]) ELSE str[i]>>
             \o CamelCaseFrom(str, i + 1, FALSE)

\* Oas3Tools.sanitize: the characters outside [a-zA-Z0-9_] are dropped and the
\* character that follows one is upper-cased.
Sanitize(str) == CamelCaseFrom(str, 1, FALSE)

RECURSIVE NumberToString(_)
\* String(n) for n >= 0, as `viewerName += n` appends it.
NumberToString(n) ==
  IF n < 10
    THEN <<Digits[n + 1]>>
    ELSE NumberToString(n \div 10) \o <<Digits[(n % 10) + 1]>>

RECURSIVE StringLess(_, _)
\* a < b as Array.prototype.sort() compares strings: by code units.
StringLess(a, b) ==
  IF b = <<>> THEN FALSE
  ELSE IF a = <<>> THEN TRUE
  ELSE IF a[1] # b[1] THEN CodeUnit(a[1]) < CodeUnit(b[1])
  ELSE StringLess(Tail(a), Tail(b))

RECURSIVE SortedKeys(_)
\* Object.keys(o).sort() of a key set: smallest first.
SortedKeys(keys) ==
  IF keys = {}
    THEN <<>>
    ELSE LET least == CHOOSE k \in keys : \A j \in keys \ {k} : StringLess(k, j)
         IN  <<least>> \o SortedKeys(keys \ {least})

\* utils.sortObject: the same properties, re-inserted in sorted key order.
SortObject(o) ==
  LET sorted == SortedKeys(KeySet(o))
  IN  [i \in 1..Len(sorted) |-> <<sorted[i], Get(o, sorted[i])>>]

\* Oas3Tools.sanitizeAndStore(str, mapping): the returned name.
SanitizedAndStoredName(str) ==
  LET clean == Sanitize(str) IN IF clean = <<>> THEN str ELSE clean

\* Oas3Tools.sanitizeAndStore(str, mapping): the mapping afterwards.  A name
\* that sanitizing changed is recorded once, clean -> raw; an entry that is
\* already there is kept.
SanitizeAndStoreMapping(str, mapping) ==
  LET clean == Sanitize(str)
  IN  IF clean # <<>> /\ clean # str /\ ~Has(mapping, clean)
        THEN Put(mapping, clean, str)
        ELSE mapping

-----------------------------------------------------------------------------
(* String literals of the source.                                          *)

TypeApiKey == <<"a", "p", "i", "K", "e", "y">>

TypeHttp == <<"h", "t", "t", "p">>

TypeBasicAuth == <<"b", "a", "s", "i", "c", "A", "u", "t", "h">>

ViewerPrefix == <<"v", "i", "e", "w", "e", "r", " ">>

MutationViewerPrefix == <<"m", "u", "t", "a", "t", "i", "o", "n", " ">> \o ViewerPrefix

ViewerAnyAuth == <<"v", "i", "e", "w", "e", "r", "A", "n", "y", "A", "u", "t", "h">>

MutationViewerAnyAuth ==
  <<"m", "u", "t", "a", "t", "i", "o", "n", "V", "i", "e", "w", "e", "r",
    "A", "n", "y", "A", "u", "t", "h">>

GraphQLNonNullString == [kind |-> "GraphQLNonNull", ofType |-> "GraphQLString"]

-----------------------------------------------------------------------------
(* Inputs: the security schemes preprocessing hands over, the fields that  *)
(* need each protocol, the documents.  queryFields names every scheme of   *)
(* data.security or all but one of them.                                   *)

\* The largest number of security schemes in data.security.
MaxProtocols == 3

ApiUnderscoreKey == <<"a", "p", "i", "_", "k", "e", "y">>

ApiSpaceKey == <<"a", "p", "i", " ", "k", "e", "y">>

ApiDashKey == <<"a", "p", "i", "-", "k", "e", "y">>

BasicLogin == <<"b", "a", "s", "i", "c", "-", "l", "o", "g", "i", "n">>

DigestLogin == <<"D", "i", "g", "e", "s", "t">>

ProtocolNames ==
  {ApiUnderscoreKey, ApiSpaceKey, ApiDashKey, BasicLogin, DigestLogin}

\* The security scheme object (def) declared under each name.
SecurityDef(protocolName) ==
  CASE protocolName \in {ApiUnderscoreKey, ApiSpaceKey, ApiDashKey} ->
         [type |-> TypeApiKey, scheme |-> "undefined"]
    [] protocolName = BasicLogin -> [type |-> TypeHttp, scheme |-> "basic"]
    [] protocolName = DigestLogin -> [type |-> TypeHttp, scheme |-> "digest"]

\* The credential parameters of a scheme, in the order preprocessing declares them.
SecurityParameters(def) ==
  CASE def.type = TypeApiKey -> <<<<"apiKey", "string">>>>
    [] def.type = TypeHttp /\ def.scheme = "basic" ->
         <<<<"username", "string">>, <<"password", "string">>>>
    [] OTHER -> <<>>

\* ProcessedSecurityScheme
ProcessedSecurityScheme(protocolName, title) ==
  LET def == SecurityDef(protocolName)
  IN  [rawName    |-> protocolName,
       def        |-> def,
       parameters |-> SecurityParameters(def),
       schema     |-> [type       |-> "object",
                       title      |-> protocolName,
                       properties |-> Keys(SecurityParameters(def))],
       oas        |-> [info |-> [title |-> title]]]

\* The operations that require each protocol: fieldName -> field.  A field
\* is tagged with the protocol it was filed under.
FieldNamesOf(protocolName) ==
  CASE protocolName = ApiUnderscoreKey -> <<"getPet", "getUser">>
    [] protocolName = ApiSpaceKey -> <<"getPet">>
    [] protocolName = ApiDashKey -> <<"getOrder">>
    [] protocolName = BasicLogin -> <<"getUser", "getPet">>
    [] protocolName = DigestLogin -> <<"getOrder", "getUser">>

FieldsOf(protocolName) ==
  LET names == FieldNamesOf(protocolName)
  IN  [i \in 1..Len(names) |->
         <<names[i], [operation |-> names[i], security |-> protocolName]>>]

\* Lists of distinct protocol names, at most MaxProtocols long.
ProtocolLists ==
  {s \in UNION {[1..n -> ProtocolNames] : n \in 0..MaxProtocols} :
     \A i, j \in 1..Len(s) : i # j => s[i] # s[j]}

RECURSIVE SelectFrom(_, _, _)
\* The elements of list whose position is in chosen, in list order.
SelectFrom(list, i, chosen) ==
  IF i > Len(list)
    THEN <<>>
    ELSE (IF i \in chosen THEN <<list[i]>> ELSE <<>>) \o SelectFrom(list, i + 1, chosen)

DocumentLists == {<<"Petstore">>, <<"Petstore", "Users">>}

\* Entries of data.saneMap and data.defs made before the viewers are built.
PetId == <<"p", "e", "t", "I", "d">>

PetDashId == <<"p", "e", "t", "-", "i", "d">>

InitialSaneMap == <<<<PetId, PetDashId>>>>

InitialDefs ==
  <<[fromRef |-> PetId,
     schema  |-> [type |-> "object", title |-> PetId, properties |-> <<"id">>]]>>

\* What a GraphQL execution may pass to a resolve function.
\* <<root, ctx>>
CallEnvironments == {<<"undefined", "ctxA">>, <<"rootValue", "ctxB">>}

ArgValues ==
  {<<<<"token", "abc">>>>,
   <<<<"apiKeyAuth", "k1">>, <<"basicAuth", "u:p">>>>}

-----------------------------------------------------------------------------
(* createAndLoadViewer, the body of its loop.                              *)

\* `let type = ...def.type`, changed to 'basicAuth' for http + basic.
AuthType(def) ==
  IF def.type = TypeHttp
    THEN IF def.scheme = "basic" THEN TypeBasicAuth ELSE def.type
    ELSE def.type

\* As if `case 'basic'` had no break and fell through to the default branch.
UnsupportedHttpAuthSchemeFallThrough(def) ==
  def.type = TypeHttp

\* The default branch of `switch (scheme)`: handleWarning is called.
UnsupportedHttpAuthScheme(def) ==
  def.type = TypeHttp /\ def.scheme # "basic"

\* utils.handleWarning: the warning is delivered to the report, nothing is raised.
HandleWarning(report, typeKey, culprit) ==
  Append(report, [type |-> typeKey, culprit |-> culprit])

WarningsAfter(report, def) ==
  IF UnsupportedHttpAuthScheme(def)
    THEN HandleWarning(report, "UNSUPPORTED_HTTP_AUTH_SCHEME", def.scheme)
    ELSE report

\* As if the mutation branch left the security type out of the name.
ViewerNameWithoutType(type, isMutation) ==
  IF ~isMutation
    THEN Sanitize(ViewerPrefix \o type)
    ELSE Sanitize(MutationViewerPrefix)

\* `let viewerName = !isMutation ? sanitize(...) : sanitize(...)`
ViewerName(type, isMutation) ==
  IF ~isMutation
    THEN Sanitize(ViewerPrefix \o type)
    ELSE Sanitize(MutationViewerPrefix \o type)

\* `if (!(type in usedViewerNames)) usedViewerNames[type] = []`
WithListFor(used, type) ==
  IF ~Has(used, type) THEN Put(used, type, <<>>) ELSE used

\* As if the collision check were missing.
UniqueViewerNameUnchecked(list, viewerName) ==
  viewerName

\* As if the suffix were `viewerName += 1`, without the list length.
UniqueViewerNamePlusOne(list, viewerName) ==
  IF Includes(list, viewerName)
    THEN viewerName \o NumberToString(1)
    ELSE viewerName

\* `if (list.indexOf(viewerName) !== -1) viewerName += list.length + 1`
UniqueViewerName(list, viewerName) ==
  IF Includes(list, viewerName)
    THEN viewerName \o NumberToString(Len(list) + 1)
    ELSE viewerName

\* As if the arguments of Object.assign were swapped: the accumulated field wins.
AccumulateFieldsKeepingFirst(accumulated, fields) ==
  ObjectAssign(fields, accumulated)

\* `Object.assign(anyAuthFields, queryFields[protocolName])`
AccumulateFields(accumulated, fields) ==
  ObjectAssign(accumulated, fields)

\* `usedViewerNames[type].push(viewerName)`
PushViewerName(used, type, viewerName) ==
  Put(used, type, Append(Get(used, type), viewerName))

-----------------------------------------------------------------------------
(* getViewerOT                                                             *)

\* As if the credentials were filed under the raw protocol name.
ViewerResolveRawName(protocolName, root, args, ctx) ==
  [_openapiToGraphql |-> [security |-> <<<<protocolName, args>>>>]]

\* The resolve function of a protocol's viewer: its return value.
ViewerResolve(protocolName, root, args, ctx) ==
  [_openapiToGraphql |->
     [security |-> <<<<SanitizedAndStoredName(protocolName), args>>>>]]

\* The resolve function of a protocol's viewer: data.saneMap afterwards.
ViewerResolveSaneMap(protocolName, saneMap) ==
  SanitizeAndStoreMapping(protocolName, saneMap)

\* As if the args were passed through sortObject: the keys in alphabetical order.
ViewerArgsSorted(scheme) ==
  LET alphabetical == <<"apiKey", "password", "username">>
      declared == KeySet(scheme.parameters)
      keys == SelectSeq(alphabetical, LAMBDA k : k \in declared)
  IN  [i \in 1..Len(keys) |-> <<keys[i], [type |-> GraphQLNonNullString]>>]

\* `for (let parameterName in scheme.parameters) args[parameterName] = ...`
ViewerArgs(scheme) ==
  [i \in 1..Len(scheme.parameters) |->
     <<scheme.parameters[i][1], [type |-> GraphQLNonNullString]>>]

ViewerTypeDescription(scheme, documents) ==
  IF Len(documents) = 1
    THEN [text    |-> "A viewer for the security protocol: '${rawName}'",
          rawName |-> scheme.rawName,
          title   |-> ""]
    ELSE [text    |-> "A viewer for the security protocol '${rawName}' in ${title}",
          rawName |-> scheme.rawName,
          title   |-> scheme.oas.info.title]

ViewerDescription(scheme, protocolName, type, documents) ==
  IF Len(documents) = 1
    THEN [text         |-> "A viewer that wraps all operations authenticated via ${type}",
          type         |-> type,
          title        |-> "",
          protocolName |-> <<>>]
    ELSE [text         |-> "A viewer that wraps all operations authenticated via ${type}\n\nFor the security scheme: ${title} ${protocolName}",
          type         |-> type,
          title        |-> scheme.oas.info.title,
          protocolName |-> protocolName]

GetViewerOT(name, protocolName, type, fields, security, documents) ==
  LET scheme == Get(security, protocolName)
  IN  [type        |-> [name        |-> name,
                        description |-> ViewerTypeDescription(scheme, documents),
                        fields      |-> fields],
       resolve     |-> [function |-> "getViewerOT", protocolName |-> protocolName],
       args        |-> ViewerArgs(scheme),
       description |-> ViewerDescription(scheme, protocolName, type, documents)]

-----------------------------------------------------------------------------
(* getViewerAnyAuthOT                                                      *)

\* preprocessor.createDataDef: the data definition of a schema.
CreateDataDef(fromRef, schema, defs) ==
  IF \E i \in 1..Len(defs) : defs[i].schema = schema
    THEN defs[CHOOSE i \in 1..Len(defs) : defs[i].schema = schema]
    ELSE [fromRef |-> fromRef, schema |-> schema]

\* preprocessor.createDataDef: data.defs afterwards; a new definition is registered.
CreateDataDefDefs(fromRef, schema, defs) ==
  IF \E i \in 1..Len(defs) : defs[i].schema = schema
    THEN defs
    ELSE Append(defs, [fromRef |-> fromRef, schema |-> schema])

\* schema_builder.getGraphQLType for an object definition.
GetGraphQLType(def, isMutation) ==
  [kind   |-> IF isMutation THEN "GraphQLInputObjectType" ELSE "GraphQLObjectType",
   fields |-> def.schema.properties,
   name   |-> def.fromRef]

\* One turn of `for (let protocolName in data.security)`: the argument type.
AnyAuthArgType(protocolName, scheme, defs) ==
  GetGraphQLType(CreateDataDef(protocolName, scheme.schema, defs), TRUE)

\* As if the key were made with sanitize, which stores nothing.
AnyAuthStoreNameNowhere(protocolName, saneMap) ==
  saneMap

\* As if the raw protocol name were written into the table as its own key.
AnyAuthStoreNameRaw(protocolName, saneMap) ==
  Put(saneMap, protocolName, protocolName)

\* `Oas3Tools.sanitizeAndStore(protocolName, data.saneMap)`: data.saneMap afterwards.
AnyAuthStoreName(protocolName, saneMap) ==
  SanitizeAndStoreMapping(protocolName, saneMap)

RECURSIVE AnyAuthLoop(_, _, _, _)
\* `for (let protocolName in data.security)` from position i on: the args
\* collected, and data.saneMap and data.defs as the loop leaves them.
AnyAuthLoop(security, i, args, d) ==
  IF i > Len(security)
    THEN [args |-> args, data |-> d]
    ELSE LET protocolName == security[i][1]
             scheme == security[i][2]
         IN  AnyAuthLoop(
               security, i + 1,
               Put(args, SanitizedAndStoredName(protocolName),
                   [type |-> AnyAuthArgType(protocolName, scheme, d.defs)]),
               [d EXCEPT
                  !.defs = CreateDataDefDefs(protocolName, scheme.schema, d.defs),
                  !.saneMap = AnyAuthStoreName(protocolName, d.saneMap)])

\* As if `args = sortObject(args)` were missing.
AnyAuthArgsUnsorted(d) == AnyAuthLoop(d.security, 1, <<>>, d).args

\* `args = sortObject(args)`
AnyAuthArgs(d) == SortObject(AnyAuthLoop(d.security, 1, <<>>, d).args)

\* data after getViewerAnyAuthOT.
AnyAuthData(d) == AnyAuthLoop(d.security, 1, <<>>, d).data

\* The resolve function of the AnyAuth viewer.
AnyAuthResolve(root, args, ctx) ==
  [_openapiToGraphql |-> [security |-> args]]

GetViewerAnyAuthOT(name, fields, d) ==
  [type        |-> [name        |-> name,
                    description |-> [text    |-> "Warning: Not every request will work with this viewer type",
                                     rawName |-> <<>>,
                                     title   |-> ""],
                    fields      |-> fields],
   resolve     |-> [function |-> "getViewerAnyAuthOT", protocolName |-> <<>>],
   args        |-> AnyAuthArgs(d),
   description |-> [text         |-> "A viewer that wraps operations for all available authentication mechanisms",
                    type         |-> <<>>,
                    title        |-> "",
                    protocolName |-> <<>>]]

\* `let anyAuthObjectName = !isMutation ? 'viewerAnyAuth' : 'mutationViewerAnyAuth'`
AnyAuthObjectName(isMutation) ==
  IF ~isMutation THEN ViewerAnyAuth ELSE MutationViewerAnyAuth

-----------------------------------------------------------------------------
(* The state machine.                                                      *)

Init ==
  \E protocols \in ProtocolLists, documents \in DocumentLists :
    \E unused \in {{}} \cup {{i} : i \in 1..Len(protocols)} :
      LET withFields == SelectFrom(protocols, 1, (1..Len(protocols)) \ unused)
      IN  /\ queryFields =
               [i \in 1..Len(withFields) |-> <<withFields[i], FieldsOf(withFields[i])>>]
          /\ oass = documents
          /\ data = [m \in BOOLEAN |->
               [security |-> [i \in 1..Len(protocols) |->
                                <<protocols[i],
                                  ProcessedSecurityScheme(protocols[i], documents[1])>>],
                saneMap  |-> InitialSaneMap,
                defs     |-> InitialDefs]]
          /\ pc = [m \in BOOLEAN |-> "idle"]
          /\ cursor = [m \in BOOLEAN |-> 1]
          /\ results = [m \in BOOLEAN |-> <<>>]
          /\ usedViewerNames = [m \in BOOLEAN |-> <<>>]
          /\ anyAuthFields = [m \in BOOLEAN |-> <<>>]
          /\ warnings = [m \in BOOLEAN |-> <<>>]
          /\ lastCall = <<>>

\* createAndLoadViewer is synchronous: once entered it runs to its return
\* before any other code of the process does.
MayRun(isMutation) ==
  /\ pc[isMutation] \in {"idle", "loop"}
  /\ pc[~isMutation] # "loop"

\* The returned resolve functions are invoked in the serving phase, when the
\* schema has been built: both runs have returned.
MayResolve(isMutation) ==
  /\ pc[isMutation] = "returned"
  /\ pc[~isMutation] = "returned"

\* One turn of `for (let protocolName in queryFields)`.
LoopStep(isMutation) ==
  /\ MayRun(isMutation)
  /\ cursor[isMutation] <= Len(queryFields)
  /\ LET protocolName == queryFields[cursor[isMutation]][1]
         fields == queryFields[cursor[isMutation]][2]
         def == Get(data[isMutation].security, protocolName).def
         type == AuthType(def)
         used == WithListFor(usedViewerNames[isMutation], type)
         viewerName == UniqueViewerName(Get(used, type), ViewerName(type, isMutation))
     IN  /\ anyAuthFields' = [anyAuthFields EXCEPT
                                ![isMutation] = AccumulateFields(@, fields)]
         /\ warnings' = [warnings EXCEPT ![isMutation] = WarningsAfter(@, def)]
         /\ usedViewerNames' = [usedViewerNames EXCEPT
                                  ![isMutation] = PushViewerName(used, type, viewerName)]
         /\ results' = [results EXCEPT
                          ![isMutation] =
                            Put(@, viewerName,
                                GetViewerOT(viewerName, protocolName, type, fields,
                                            data[isMutation].security, oass))]
  /\ cursor' = [cursor EXCEPT ![isMutation] = @ + 1]
  /\ pc' = [pc EXCEPT ![isMutation] = "loop"]
  /\ UNCHANGED <<queryFields, oass, data, lastCall>>

\* After the loop: the AnyAuth viewer is added and results is returned.
AddAnyAuthViewer(isMutation) ==
  /\ MayRun(isMutation)
  /\ cursor[isMutation] > Len(queryFields)
  /\ results' = [results EXCEPT
                   ![isMutation] =
                     Put(@, AnyAuthObjectName(isMutation),
                         GetViewerAnyAuthOT(AnyAuthObjectName(isMutation),
                                            anyAuthFields[isMutation],
                                            data[isMutation]))]
  /\ data' = [data EXCEPT ![isMutation] = AnyAuthData(@)]
  /\ pc' = [pc EXCEPT ![isMutation] = "returned"]
  /\ UNCHANGED <<queryFields, oass, cursor, usedViewerNames, anyAuthFields,
                 warnings, lastCall>>

\* GraphQL invokes the resolve function of a protocol's viewer.
CallViewerResolve(isMutation) ==
  /\ MayResolve(isMutation)
  /\ \E i \in 1..Len(results[isMutation]), env \in CallEnvironments,
        args \in ArgValues :
       LET viewer == results[isMutation][i][2]
           root == env[1]
           ctx == env[2]
           protocolName == viewer.resolve.protocolName
       IN  /\ viewer.resolve.function = "getViewerOT"
           /\ lastCall' = <<[isMutation |-> isMutation,
                             viewerName |-> results[isMutation][i][1],
                             args       |-> args,
                             value      |-> ViewerResolve(protocolName, root, args, ctx)]>>
           /\ data' = [data EXCEPT
                         ![isMutation].saneMap = ViewerResolveSaneMap(protocolName, @)]
  /\ UNCHANGED <<queryFields, oass, pc, cursor, results, usedViewerNames,
                 anyAuthFields, warnings>>

\* GraphQL invokes the resolve function of the AnyAuth viewer.
CallAnyAuthResolve(isMutation) ==
  /\ MayResolve(isMutation)
  /\ \E i \in 1..Len(results[isMutation]), env \in CallEnvironments,
        args \in ArgValues :
       LET viewer == results[isMutation][i][2]
           root == env[1]
           ctx == env[2]
       IN  /\ viewer.resolve.function = "getViewerAnyAuthOT"
           /\ lastCall' = <<[isMutation |-> isMutation,
                             viewerName |-> results[isMutation][i][1],
                             args       |-> args,
                             value      |-> AnyAuthResolve(root, args, ctx)]>>
  /\ UNCHANGED <<queryFields, oass, data, pc, cursor, results, usedViewerNames,
                 anyAuthFields, warnings>>

Next ==
  \E isMutation \in BOOLEAN :
    \/ LoopStep(isMutation)
    \/ AddAnyAuthViewer(isMutation)
    \/ CallViewerResolve(isMutation)
    \/ CallAnyAuthResolve(isMutation)

Spec == Init /\ [][Next]_vars

-----------------------------------------------------------------------------
(* Properties.                                                             *)

Returned(m) == pc[m] = "returned"

\* The positions of results[m] that hold a protocol's viewer.
ProtocolViewers(m) ==
  {i \in 1..Len(results[m]) : results[m][i][2].resolve.function = "getViewerOT"}

\* Every name recorded in usedViewerNames[m], over all security types.
AllocatedNames(m) ==
  UNION {Range(usedViewerNames[m][i][2]) : i \in 1..Len(usedViewerNames[m])}

FixedAnyAuthName(m) == IF m THEN MutationViewerAnyAuth ELSE ViewerAnyAuth

\* C1: for N protocols in queryFields, in query and in mutation mode, the
\* returned mapping has exactly N + 1 entries: the N allocated names and the
\* fixed AnyAuth name are pairwise distinct, across security types too.
C1_ExactlyNPlusOneViewers ==
  \A m \in BOOLEAN :
    Returned(m) =>
      /\ Len(results[m]) = Len(queryFields) + 1
      /\ Cardinality(AllocatedNames(m) \cup {FixedAnyAuthName(m)}) = Len(queryFields) + 1
      /\ KeySet(results[m]) = AllocatedNames(m) \cup {FixedAnyAuthName(m)}

\* C1 witness: a run has returned for three protocols of two security
\* types, two of them of the same type.
C1_Witness ==
  \E m \in BOOLEAN :
    /\ Returned(m)
    /\ Len(queryFields) = 3
    /\ Len(usedViewerNames[m]) = 2
    /\ Len(results[m]) = 4

\* C2: the argument names of a protocol's viewer are the parameter names of
\* data.security[P].parameters in declared order, and every argument is a
\* non-null string.
C2_ViewerArgsInDeclaredOrder ==
  \A m \in BOOLEAN :
    \A i \in ProtocolViewers(m) :
      LET viewer == results[m][i][2]
          scheme == Get(data[m].security, viewer.resolve.protocolName)
      IN  /\ Keys(viewer.args) = Keys(scheme.parameters)
          /\ \A j \in 1..Len(viewer.args) :
               viewer.args[j][2] =
                 [type |-> [kind |-> "GraphQLNonNull", ofType |-> "GraphQLString"]]

\* C2 witness: a viewer was built for the basic scheme, with the arguments
\* username, password in that order.
C2_Witness ==
  \E m \in BOOLEAN :
    \E i \in ProtocolViewers(m) :
      /\ results[m][i][2].resolve.protocolName = BasicLogin
      /\ Keys(results[m][i][2].args) = <<"username", "password">>

\* C3: the argument keys of the AnyAuth viewer are the sanitized names of
\* all schemes of data.security in ascending lexicographic order, whatever
\* the declaration order.
C3_AnyAuthArgsSorted ==
  \A m \in BOOLEAN :
    Returned(m) =>
      LET keys == Keys(Get(results[m], FixedAnyAuthName(m)).args)
      IN  /\ Range(keys) = {Sanitize(p) : p \in KeySet(data[m].security)}
          /\ \A i, j \in 1..Len(keys) : i < j => StringLess(keys[i], keys[j])

\* C3 witness: the AnyAuth viewer was built from three schemes declared in
\* an order that is not the sorted one.
C3_Witness ==
  \E m \in BOOLEAN :
    /\ Returned(m)
    /\ Len(data[m].security) = 3
    /\ Len(Get(results[m], FixedAnyAuthName(m)).args) = 3
    /\ \E i, j \in 1..3 :
         /\ i < j
         /\ StringLess(Sanitize(data[m].security[j][1]), Sanitize(data[m].security[i][1]))

\* C4: a resolve function returns one top-level key, _openapiToGraphql,
\* holding security: {sanitized(P): args} for the viewer of protocol P and
\* the args themselves for the AnyAuth viewer.
C4_ResolveResult ==
  lastCall # <<>> =>
    LET call == lastCall[1]
        viewer == Get(results[call.isMutation], call.viewerName)
        security == call.value._openapiToGraphql.security
    IN  /\ DOMAIN call.value = {"_openapiToGraphql"}
        /\ DOMAIN call.value._openapiToGraphql = {"security"}
        /\ IF viewer.resolve.function = "getViewerOT"
             THEN security = <<<<Sanitize(viewer.resolve.protocolName), call.args>>>>
             ELSE security = call.args

\* C4 witness: the viewer of a protocol whose name sanitizing changes has
\* been resolved.
C4_Witness ==
  /\ lastCall # <<>>
  /\ LET viewer == Get(results[lastCall[1].isMutation], lastCall[1].viewerName)
     IN  /\ viewer.resolve.function = "getViewerOT"
         /\ viewer.resolve.protocolName = ApiSpaceKey
         /\ lastCall[1].args = <<<<"token", "abc">>>>

\* The protocols of queryFields before position n that are http without basic.
UnsupportedBefore(m, n) ==
  {i \in 1..(n - 1) :
     LET def == Get(data[m].security, queryFields[i][1]).def
     IN  def.type = TypeHttp /\ def.scheme # "basic"}

MutationNameOf(q) ==
  <<"m", "u", "t", "a", "t", "i", "o", "n">> \o Capitalize(q)

\* What a viewer's resolve function returns for args.
ResolveValue(viewer, env, args) ==
  IF viewer.resolve.function = "getViewerOT"
    THEN ViewerResolve(viewer.resolve.protocolName, env[1], args, env[2])
    ELSE AnyAuthResolve(env[1], args, env[2])

\* C6: on the same inputs the query run and the mutation run differ in the
\* name prefixes only: same number of viewers, same suffix per protocol,
\* same arguments in the same order, same wrapped fields, same resolver
\* results, same descriptions, same warnings.
C6_MutationModeChangesNamesOnly ==
  (Returned(FALSE) /\ Returned(TRUE)) =>
    /\ Len(results[TRUE]) = Len(results[FALSE])
    /\ warnings[TRUE] = warnings[FALSE]
    /\ \A i \in 1..Len(results[FALSE]) :
         i \in 1..Len(results[TRUE]) =>
           LET q == results[FALSE][i][2]
               t == results[TRUE][i][2]
           IN  /\ results[TRUE][i][1] = MutationNameOf(results[FALSE][i][1])
               /\ t.type.name = MutationNameOf(q.type.name)
               /\ t.args = q.args
               /\ t.type.fields = q.type.fields
               /\ t.type.description = q.type.description
               /\ t.description = q.description
               /\ t.resolve = q.resolve
               /\ \A env \in CallEnvironments, args \in ArgValues :
                    ResolveValue(t, env, args) = ResolveValue(q, env, args)

\* C6 witness: both runs have returned, with a suffixed viewer name and a warning.
C6_Witness ==
  /\ Returned(FALSE)
  /\ Returned(TRUE)
  /\ Len(warnings[TRUE]) = 1
  /\ \E i \in 1..Len(usedViewerNames[TRUE]) : Len(usedViewerNames[TRUE][i][2]) = 2

IsPrefix(s, t) == Len(s) <= Len(t) /\ SubSeq(t, 1, Len(s)) = s

\* C8 as claimed: a step of a run that has not returned leaves queryFields,
\* data (security, saneMap, defs) and the documents as they were.
C8_ConstructionMutatesNothing ==
  [][\A m \in BOOLEAN :
       ~Returned(m) =>
         /\ data'[m] = data[m]
         /\ queryFields' = queryFields
         /\ oass' = oass]_vars

\* C8 as amended: construction leaves queryFields, the security schemes and
\* the documents as they were; data.saneMap and data.defs keep every entry
\* they had and only gain, for schemes of data.security, the entry
\* sanitized name -> raw name and the data definition of the scheme's schema.
C8_ConstructionOnlyRegisters ==
  [][\A m \in BOOLEAN :
       ~Returned(m) =>
         /\ queryFields' = queryFields
         /\ oass' = oass
         /\ data'[m].security = data[m].security
         /\ IsPrefix(data[m].saneMap, data'[m].saneMap)
         /\ IsPrefix(data[m].defs, data'[m].defs)
         /\ \A i \in (Len(data[m].saneMap) + 1)..Len(data'[m].saneMap) :
              \E p \in KeySet(data[m].security) :
                data'[m].saneMap[i] = <<Sanitize(p), p>> /\ Sanitize(p) # p
         /\ \A i \in (Len(data[m].defs) + 1)..Len(data'[m].defs) :
              \E p \in KeySet(data[m].security) :
                data'[m].defs[i].schema = Get(data[m].security, p).schema]_vars

\* C8 witness: a run has returned having registered a sanitized name and
\* three data definitions.
C8_Witness ==
  \E m \in BOOLEAN :
    /\ Returned(m)
    /\ Len(data[m].saneMap) = Len(InitialSaneMap) + 1
    /\ Len(data[m].defs) = Len(InitialDefs) + 3

\* C9: at every step of the loop and for every security type, the list
\* usedViewerNames[type] holds no name twice, also for three or more
\* protocols of one type.
C9_UsedViewerNamesDistinct ==
  \A m \in BOOLEAN :
    \A k \in 1..Len(usedViewerNames[m]) :
      LET list == usedViewerNames[m][k][2]
      IN  \A i, j \in 1..Len(list) : i # j => list[i] # list[j]

\* C9 witness: three protocols of one security type have been named.
C9_Witness ==
  \E m \in BOOLEAN :
    \E k \in 1..Len(usedViewerNames[m]) : Len(usedViewerNames[m][k][2]) = 3

\* The positions of queryFields whose protocol has a field named f.
ProtocolsWithField(f) == {i \in 1..Len(queryFields) : Has(queryFields[i][2], f)}

Last(positions) == CHOOSE i \in positions : \A j \in positions : j <= i

\* C10: the AnyAuth viewer wraps the merge, in iteration order, of every
\* protocol's fields: the union of the field names, each with the value of
\* the protocol iterated last; a protocol's viewer wraps its own fields.
C10_AnyAuthFieldsAreTheMerge ==
  \A m \in BOOLEAN :
    /\ Returned(m) =>
         LET fields == Get(results[m], FixedAnyAuthName(m)).type.fields
         IN  /\ KeySet(fields) =
                  UNION {KeySet(queryFields[i][2]) : i \in 1..Len(queryFields)}
             /\ \A j \in 1..Len(fields) :
                  fields[j][2] =
                    Get(queryFields[Last(ProtocolsWithField(fields[j][1]))][2],
                        fields[j][1])
    /\ \A i \in ProtocolViewers(m) :
         results[m][i][2].type.fields =
           Get(queryFields, results[m][i][2].resolve.protocolName)

\* C10 witness: the AnyAuth viewer wraps a field that two protocols of
\* queryFields have.
C10_Witness ==
  \E m \in BOOLEAN :
    /\ Returned(m)
    /\ \E j \in 1..Len(Get(results[m], FixedAnyAuthName(m)).type.fields) :
         Cardinality(
           ProtocolsWithField(Get(results[m], FixedAnyAuthName(m)).type.fields[j][1])) >= 2

====
